---- MODULE Spec2Model ----
(***************************************************************************)
(* A model of moocloze (src/moocloze/moocloze.py): the Cloze field         *)
(* renderers (Numerical, Multiresponse, Multichoice, ShortAnswer), the     *)
(* Question and Quiz serializers and the file sink Quiz.to_xml_file.       *)
(*                                                                         *)
(* Texts are TLA+ strings handled character by character (Len, SubSeq,     *)
(* \o), so that formatting, ordering and parsing are computed, not         *)
(* assumed.  A Python value is a record [k, i, s]: k is its type ("int",   *)
(* "float", "str", "none"), i the integer (or the float in tenths), s the  *)
(* text.                                                                   *)
(***************************************************************************)
EXTENDS Integers, Sequences, FiniteSets, TLC

VARIABLES
    fld,        \* the Field instance under construction/rendering (its attributes)
    fld0,       \* the attributes the instance was first constructed with
    out,        \* the result of the last str(field): [status, text]
    renders,    \* how many times these attributes were rendered (capped)
    stable,     \* every render of these attributes gave the same result
    questions,  \* Quiz.questions: the list of Question records
    quizText,   \* the result of the last str(Quiz)
    fs,         \* the file at output_path: [exists, data]
    ret,        \* how the last to_xml_file call ended
    events,     \* the file-handle events of the last to_xml_file call
    handles     \* the number of file handles currently open

fieldVars == <<fld, fld0, out, renders, stable>>
quizVars == <<questions, quizText, fs, ret, events, handles>>
vars == <<fld, fld0, out, renders, stable,
          questions, quizText, fs, ret, events, handles>>

----------------------------------------------------------------------------
(* Bounds of the model.                                                    *)

\* the most answers (correct and incorrect together) an instance is built with
MaxAns == 2
\* the most renders of one instance that are counted
MaxRenders == 2
\* the most questions of a Quiz
MaxQuestions == 2

----------------------------------------------------------------------------
(* Python values and text.                                                 *)

IntV(n) == [k |-> "int", i |-> n, s |-> ""]
FloatV(tenths) == [k |-> "float", i |-> tenths, s |-> ""]
StrV(t) == [k |-> "str", i |-> 0, s |-> t]
NoneV == [k |-> "none", i |-> 0, s |-> ""]

\* the characters of the model in code point order (Python compares str by code
\* point); the backquote, which no text of the model uses, is left out
CodePoints == "\t\n !\"#$%&'()*+,-./0123456789:;<=>?@ABCDEFGHIJKLMNOPQRSTUVWXYZ[\\]^_abcdefghijklmnopqrstuvwxyz{|}~"

Ord(c) == CHOOSE n \in 1..Len(CodePoints) : SubSeq(CodePoints, n, n) = c

Char(t, n) == SubSeq(t, n, n)

\* -1, 0, 1: Python's comparison of two str values
RECURSIVE StrCmp(_, _)
StrCmp(a, b) ==
    IF Len(a) = 0 /\ Len(b) = 0 THEN 0
    ELSE IF Len(a) = 0 THEN -1
    ELSE IF Len(b) = 0 THEN 1
    ELSE IF Char(a, 1) = Char(b, 1)
         THEN StrCmp(SubSeq(a, 2, Len(a)), SubSeq(b, 2, Len(b)))
         ELSE IF Ord(Char(a, 1)) < Ord(Char(b, 1)) THEN -1 ELSE 1

Digit(d) == SubSeq("0123456789", d + 1, d + 1)

RECURSIVE NatToStr(_)
NatToStr(n) == IF n < 10 THEN Digit(n) ELSE NatToStr(n \div 10) \o Digit(n % 10)

\* str(int)
IntToStr(n) == IF n < 0 THEN "-" \o NatToStr(-n) ELSE NatToStr(n)

\* str(float) of a float with one decimal digit, given in tenths
FloatToStr(t) ==
    LET a == IF t < 0 THEN -t ELSE t
    IN (IF t < 0 THEN "-" ELSE "") \o NatToStr(a \div 10) \o "." \o Digit(a % 10)

\* repr(v) in the place of str(v): a str comes out quoted
PyRepr(v) ==
    IF v.k = "int" THEN IntToStr(v.i)
    ELSE IF v.k = "float" THEN FloatToStr(v.i)
    ELSE IF v.k = "none" THEN "None"
    ELSE "'" \o v.s \o "'"

\* str(v), also what an f-string's {v} gives
PyStr(v) ==
    IF v.k = "int" THEN IntToStr(v.i)
    ELSE IF v.k = "float" THEN FloatToStr(v.i)
    ELSE IF v.k = "none" THEN "None"
    ELSE v.s

\* [str(s) for s in answers]: the list, each element replaced by its str
StrList(answers) == [n \in 1..Len(answers) |-> StrV(PyStr(answers[n]))]

\* the value of a number in tenths, for numeric comparison
Tenths(v) == IF v.k = "int" THEN 10 * v.i ELSE v.i

RECURSIVE Join(_, _)
Join(sep, parts) ==
    IF Len(parts) = 0 THEN ""
    ELSE IF Len(parts) = 1 THEN parts[1]
    ELSE parts[1] \o sep \o Join(sep, Tail(parts))

\* t[n:n+len(p)] == p
StartsWithAt(t, p, n) == n + Len(p) - 1 <= Len(t) /\ SubSeq(t, n, n + Len(p) - 1) = p

Occurrences(t, p) == {n \in 1..Len(t) : StartsWithAt(t, p, n)}

\* the place of the first occurrence of p in t at or after n, 0 when there is none
RECURSIVE FindFrom(_, _, _)
FindFrom(t, p, n) ==
    IF n + Len(p) - 1 > Len(t) THEN 0
    ELSE IF SubSeq(t, n, n + Len(p) - 1) = p THEN n
    ELSE FindFrom(t, p, n + 1)

\* t.find(p) + 1: the place of the first occurrence of p in t, 0 when there is none
Find(t, p) == FindFrom(t, p, 1)

----------------------------------------------------------------------------
(* The field renderers.  Each __str__ is an operator from the instance to  *)
(* [status, text, self]: how the call ends ("ok" or the exception raised), *)
(* the text returned, and the instance as the call leaves it.              *)

Raised(exc, self) == [status |-> exc, text |-> "", self |-> self]
Returned(t, self) == [status |-> "ok", text |-> t, self |-> self]

\* Numerical.__str__ with the kind written before the weight
Numerical_str_KindFirst(self) ==
    Returned("{NUMERICAL:" \o IntToStr(self.weight) \o ":=" \o PyStr(self.answer)
                 \o ":" \o PyStr(self.tolerance) \o "}", self)

\* Numerical.__str__ with the annotation written for every tolerance >= 0
Numerical_str_ZeroShown(self) ==
    LET s == "{" \o IntToStr(self.weight) \o ":NUMERICAL:=" \o PyStr(self.answer)
                 \o ":" \o PyStr(self.tolerance) \o "}"
    IN IF self.show_tolerance /\ Tenths(self.tolerance) >= 0
       THEN Returned(s \o " (\\(\\pm " \o PyStr(self.tolerance) \o "\\))", self)
       ELSE Returned(s, self)

\* Numerical.__str__ refusing a weight that is not positive
Numerical_str_PositiveWeight(self) ==
    LET s == "{" \o IntToStr(self.weight) \o ":NUMERICAL:=" \o PyStr(self.answer)
                 \o ":" \o PyStr(self.tolerance) \o "}"
    IN IF self.weight <= 0 THEN Raised("ValueError", self)
       ELSE IF self.show_tolerance /\ Tenths(self.tolerance) > 0
       THEN Returned(s \o " (\\(\\pm " \o PyStr(self.tolerance) \o "\\))", self)
       ELSE Returned(s, self)

\* Numerical.__str__
Numerical_str(self) ==
    LET s == "{" \o IntToStr(self.weight) \o ":NUMERICAL:=" \o PyStr(self.answer)
                 \o ":" \o PyStr(self.tolerance) \o "}"
    IN IF self.show_tolerance /\ Tenths(self.tolerance) > 0
       THEN Returned(s \o " (\\(\\pm " \o PyStr(self.tolerance) \o "\\))", self)
       ELSE Returned(s, self)

\* ShortAnswer.__str__ with the answer written as its repr (f"{self.answer!r}")
ShortAnswer_str_Quoted(self) ==
    Returned("{" \o IntToStr(self.weight) \o ":SHORTANSWER:=" \o PyRepr(StrV(self.answer))
                 \o "}", self)

\* ShortAnswer.__str__
ShortAnswer_str(self) ==
    Returned("{" \o IntToStr(self.weight) \o ":SHORTANSWER:=" \o self.answer \o "}", self)

\* the number a text of digits stands for, with its sign
TextToInt(t) ==
    LET neg == Len(t) > 0 /\ Char(t, 1) = "-"
        digits == IF neg THEN SubSeq(t, 2, Len(t)) ELSE t
        value[n \in 0..Len(digits)] ==
            IF n = 0 THEN 0
            ELSE 10 * value[n - 1] + (Find("0123456789", Char(digits, n)) - 1)
    IN IF neg THEN -value[Len(digits)] ELSE value[Len(digits)]

\* a < b for two tuples compared by the number their text stands for
TupleLess_ByNumber(a, b) ==
    \/ TextToInt(a.text) < TextToInt(b.text)
    \/ TextToInt(a.text) = TextToInt(b.text) /\ ~a.correct /\ b.correct

\* a < b by the text alone, which makes the sort keep the build order of equal texts
TupleLess_TextOnly(a, b) == StrCmp(a.text, b.text) < 0

\* a < b for two (text, correct) tuples: by text, then False before True
TupleLess(a, b) ==
    \/ StrCmp(a.text, b.text) < 0
    \/ StrCmp(a.text, b.text) = 0 /\ ~a.correct /\ b.correct

\* one step of a sort that drops an element it already holds (sorted(set(...)))
RECURSIVE Insert_Merging(_, _)
Insert_Merging(sortedSeq, e) ==
    IF Len(sortedSeq) = 0 THEN <<e>>
    ELSE IF e = Head(sortedSeq) THEN sortedSeq
    ELSE IF TupleLess(e, Head(sortedSeq)) THEN <<e>> \o sortedSeq
    ELSE <<Head(sortedSeq)>> \o Insert_Merging(Tail(sortedSeq), e)

\* one step of the stable sort: e goes after every element that is not greater
RECURSIVE Insert(_, _)
Insert(sortedSeq, e) ==
    IF Len(sortedSeq) = 0 THEN <<e>>
    ELSE IF TupleLess(e, Head(sortedSeq)) THEN <<e>> \o sortedSeq
    ELSE <<Head(sortedSeq)>> \o Insert(Tail(sortedSeq), e)

\* sorted(text_correct_tuples)
RECURSIVE Sorted(_)
Sorted(tuples) ==
    IF Len(tuples) = 0 THEN <<>>
    ELSE Insert(Sorted(SubSeq(tuples, 1, Len(tuples) - 1)), tuples[Len(tuples)])

\* the entries with the "=" written for the incorrect tuples
Entries_MarksIncorrect(tuples) ==
    [n \in 1..Len(tuples) |-> (IF tuples[n].correct THEN "" ELSE "=") \o tuples[n].text]

\* f"{'=' if correct else ''}{text}" for each tuple
Entries(tuples) ==
    [n \in 1..Len(tuples) |-> (IF tuples[n].correct THEN "=" ELSE "") \o tuples[n].text]

\* "~".join(...) of the entries
Body(tuples) == Join("~", Entries(tuples))

\* the (text, True) and (text, False) tuples, correct answers first
Tuples(correct, incorrect) ==
    [n \in 1..Len(correct) |-> [text |-> correct[n].s, correct |-> TRUE]]
    \o [n \in 1..Len(incorrect) |-> [text |-> incorrect[n].s, correct |-> FALSE]]

\* the suffix with its connector written for horizontal only
MultiresponseSuffix_ConnectorForH(horizontal, shuffle) ==
    (IF horizontal THEN "_" ELSE "")
    \o (IF horizontal THEN "H" ELSE "")
    \o (IF shuffle THEN "S" ELSE "")

\* the suffix of the MULTIRESPONSE header
MultiresponseSuffix(horizontal, shuffle) ==
    (IF horizontal \/ shuffle THEN "_" ELSE "")
    \o (IF horizontal THEN "H" ELSE "")
    \o (IF shuffle THEN "S" ELSE "")

\* Multiresponse.__str__ without its check of correct_answers
Multiresponse_str_Unchecked(self) ==
    LET coerced == [self EXCEPT !.correct_answers = StrList(self.correct_answers),
                                !.incorrect_answers = StrList(self.incorrect_answers)]
        built == Tuples(coerced.correct_answers, coerced.incorrect_answers)
    IN Returned("{" \o IntToStr(coerced.weight) \o ":MULTIRESPONSE"
                    \o MultiresponseSuffix(coerced.horizontal, coerced.shuffle) \o ":"
                    \o Body(IF ~coerced.shuffle THEN Sorted(built) ELSE built) \o "}",
                coerced)

\* Multiresponse.__str__ sorting the tuples whatever shuffle is
Multiresponse_str_AlwaysSorts(self) ==
    LET coerced == [self EXCEPT !.correct_answers = StrList(self.correct_answers),
                                !.incorrect_answers = StrList(self.incorrect_answers)]
        s == "{" \o IntToStr(coerced.weight) \o ":MULTIRESPONSE"
                 \o MultiresponseSuffix(coerced.horizontal, coerced.shuffle) \o ":"
        built == Tuples(coerced.correct_answers, coerced.incorrect_answers)
    IN IF Len(coerced.correct_answers) = 0
       THEN Raised("ValueError", coerced)
       ELSE Returned(s \o Body(Sorted(built)) \o "}", coerced)

\* Multiresponse.__str__ refusing an empty incorrect_answers as Multichoice does
Multiresponse_str_NeedsIncorrect(self) ==
    LET coerced == [self EXCEPT !.correct_answers = StrList(self.correct_answers),
                                !.incorrect_answers = StrList(self.incorrect_answers)]
        s == "{" \o IntToStr(coerced.weight) \o ":MULTIRESPONSE"
                 \o MultiresponseSuffix(coerced.horizontal, coerced.shuffle) \o ":"
        built == Tuples(coerced.correct_answers, coerced.incorrect_answers)
        text_correct_tuples == IF ~coerced.shuffle THEN Sorted(built) ELSE built
    IN IF Len(coerced.correct_answers) = 0 \/ Len(coerced.incorrect_answers) = 0
       THEN Raised("ValueError", coerced)
       ELSE Returned(s \o Body(text_correct_tuples) \o "}", coerced)

\* the texts of the answers in the order sorted() gives them
SortedTexts(answers) ==
    LET tuples == Sorted(Tuples(answers, <<>>))
    IN [n \in 1..Len(tuples) |-> StrV(tuples[n].text)]

\* Multiresponse.__str__ keeping the sorted answers in the instance
Multiresponse_str_StoresSorted(self) ==
    LET coerced == [self EXCEPT !.correct_answers = SortedTexts(StrList(self.correct_answers)),
                                !.incorrect_answers = SortedTexts(StrList(self.incorrect_answers))]
        s == "{" \o IntToStr(coerced.weight) \o ":MULTIRESPONSE"
                 \o MultiresponseSuffix(coerced.horizontal, coerced.shuffle) \o ":"
        built == Tuples(coerced.correct_answers, coerced.incorrect_answers)
        text_correct_tuples == IF ~coerced.shuffle THEN Sorted(built) ELSE built
    IN IF Len(coerced.correct_answers) = 0
       THEN Raised("ValueError", coerced)
       ELSE Returned(s \o Body(text_correct_tuples) \o "}", coerced)

\* Multiresponse.__str__
Multiresponse_str(self) ==
    LET coerced == [self EXCEPT !.correct_answers = StrList(self.correct_answers),
                                !.incorrect_answers = StrList(self.incorrect_answers)]
        s == "{" \o IntToStr(coerced.weight) \o ":MULTIRESPONSE"
                 \o MultiresponseSuffix(coerced.horizontal, coerced.shuffle) \o ":"
        built == Tuples(coerced.correct_answers, coerced.incorrect_answers)
        text_correct_tuples == IF ~coerced.shuffle THEN Sorted(built) ELSE built
    IN IF Len(coerced.correct_answers) = 0
       THEN Raised("ValueError", coerced)
       ELSE Returned(s \o Body(text_correct_tuples) \o "}", coerced)

\* display_str with S appended before the letter of the display mode
MultichoiceSuffix_ShuffleFirst(display_mode, shuffle) ==
    LET display_str == (IF shuffle THEN "S" ELSE "")
                       \o (IF display_mode = "HORIZONTAL_BUTTONS" THEN "H" ELSE "")
                       \o (IF display_mode = "VERTICAL_BUTTONS" THEN "V" ELSE "")
    IN IF Len(display_str) > 0 THEN "_" \o display_str ELSE display_str

\* display_str of Multichoice.__str__
MultichoiceSuffix(display_mode, shuffle) ==
    LET display_str == (IF display_mode = "HORIZONTAL_BUTTONS" THEN "H" ELSE "")
                       \o (IF display_mode = "VERTICAL_BUTTONS" THEN "V" ELSE "")
                       \o (IF shuffle THEN "S" ELSE "")
    IN IF Len(display_str) > 0 THEN "_" \o display_str ELSE display_str

\* the orders of a shuffle that never moves the first element
Shuffles_KeepsFirst(n) ==
    {p \in [1..n -> 1..n] : p[1] = 1 /\ \A a, b \in 1..n : a # b => p[a] # p[b]}

\* the orders random.shuffle can leave a list of n elements in
Shuffles(n) == {p \in [1..n -> 1..n] : \A a, b \in 1..n : a # b => p[a] # p[b]}

\* Multichoice.__str__ checking the correct answer in the place of the incorrect ones
Multichoice_str_WrongCheck(self, perm) ==
    LET coerced == [self EXCEPT !.correct_answer = StrV(PyStr(self.correct_answer)),
                                !.incorrect_answers = StrList(self.incorrect_answers)]
        built == Tuples(<<coerced.correct_answer>>, coerced.incorrect_answers)
        text_correct_tuples == IF coerced.shuffle
                               THEN [n \in 1..Len(built) |-> built[perm[n]]]
                               ELSE Sorted(built)
    IN IF self.correct_answer.k = "none"
       THEN Raised("ValueError", self)
       ELSE Returned("{" \o IntToStr(coerced.weight) \o ":MULTICHOICE"
                         \o MultichoiceSuffix(coerced.display_mode, coerced.shuffle)
                         \o ":" \o Body(text_correct_tuples) \o "}", coerced)

\* Multichoice.__str__, perm the order random.shuffle produces
Multichoice_str(self, perm) ==
    LET coerced == [self EXCEPT !.correct_answer = StrV(PyStr(self.correct_answer)),
                                !.incorrect_answers = StrList(self.incorrect_answers)]
        built == Tuples(<<coerced.correct_answer>>, coerced.incorrect_answers)
        text_correct_tuples == IF coerced.shuffle
                               THEN [n \in 1..Len(built) |-> built[perm[n]]]
                               ELSE Sorted(built)
    IN IF Len(self.incorrect_answers) = 0
       THEN Raised("ValueError", self)
       ELSE Returned("{" \o IntToStr(coerced.weight) \o ":MULTICHOICE"
                         \o MultichoiceSuffix(coerced.display_mode, coerced.shuffle)
                         \o ":" \o Body(text_correct_tuples) \o "}", coerced)

----------------------------------------------------------------------------
(* Question and Quiz serialization.                                        *)

\* t.split(sep) for a one-character sep
RECURSIVE Split(_, _)
Split(t, sep) ==
    LET n == Find(t, sep)
    IN IF n = 0 THEN <<t>>
       ELSE <<SubSeq(t, 1, n - 1)>> \o Split(SubSeq(t, n + 1, Len(t)), sep)

\* [ \t] of textwrap's regular expressions
IsBlank(c) == c = " " \/ c = "\t"

\* the number of leading [ \t] characters of a line
LeadingBlanks(line) ==
    IF \A n \in 1..Len(line) : IsBlank(Char(line, n)) THEN Len(line)
    ELSE (CHOOSE n \in 1..Len(line) :
             /\ ~IsBlank(Char(line, n))
             /\ \A m \in 1..(n - 1) : IsBlank(Char(line, m))) - 1

\* _whitespace_only_re.sub('', text), line by line: ^[ \t]+$ becomes empty
BlankedLines(lines) ==
    [n \in 1..Len(lines) |->
        IF Len(lines[n]) > 0 /\ LeadingBlanks(lines[n]) = Len(lines[n]) THEN "" ELSE lines[n]]

\* _leading_whitespace_re.findall(text): the indent of every line that has a
\* character other than blank
Indents(lines) ==
    LET keep == SelectSeq(lines, LAMBDA l : LeadingBlanks(l) < Len(l))
    IN [n \in 1..Len(keep) |-> SubSeq(keep[n], 1, LeadingBlanks(keep[n]))]

\* the length of the longest common prefix of two texts
CommonPrefixLen(a, b) ==
    LET lim == IF Len(a) < Len(b) THEN Len(a) ELSE Len(b)
        same == {n \in 0..lim : SubSeq(a, 1, n) = SubSeq(b, 1, n)}
    IN CHOOSE n \in same : \A m \in same : m <= n

\* the loop of textwrap.dedent over the indents: the margin they share
RECURSIVE Margin(_, _, _)
Margin(indents, margin, isNone) ==
    IF Len(indents) = 0 THEN margin
    ELSE LET indent == Head(indents)
             next == IF isNone THEN indent
                     ELSE IF StartsWithAt(indent, margin, 1) THEN margin
                     ELSE IF StartsWithAt(margin, indent, 1) THEN indent
                     ELSE SubSeq(margin, 1, CommonPrefixLen(margin, indent))
         IN Margin(Tail(indents), next, FALSE)

\* textwrap.dedent(text)
Dedent(t) ==
    LET lines == BlankedLines(Split(t, "\n"))
        margin == Margin(Indents(lines), "", TRUE)
        cut == [n \in 1..Len(lines) |->
                   IF Len(margin) > 0 /\ StartsWithAt(lines[n], margin, 1)
                   THEN SubSeq(lines[n], Len(margin) + 1, Len(lines[n]))
                   ELSE lines[n]]
    IN Join("\n", cut)

\* the characters str.strip() removes
IsSpace(c) == c = " " \/ c = "\t" \/ c = "\n"

\* t.strip()
Strip(t) ==
    LET solid == {n \in 1..Len(t) : ~IsSpace(Char(t, n))}
    IN IF solid = {} THEN ""
       ELSE SubSeq(t, CHOOSE n \in solid : \A m \in solid : n <= m,
                      CHOOSE n \in solid : \A m \in solid : m <= n)

\* the f-string of Question.__str__, before dedent
QuestionTemplate(self) ==
    "\n    <question type=\"cloze\">"
    \o "\n        <name><text>" \o self.name \o "</text></name>"
    \o "\n        <questiontext>"
    \o "\n        <text><![CDATA[" \o self.contents \o "]]></text>"
    \o "\n        </questiontext>"
    \o "\n        <generalfeedback>"
    \o "\n        <text></text>"
    \o "\n        </generalfeedback>"
    \o "\n        <shuffleanswers>1</shuffleanswers>"
    \o "\n    </question>"

\* Question.__str__
Question_str(self) == Strip(Dedent(QuestionTemplate(self)))

----------------------------------------------------------------------------
(* The values the callers of the model pass.                               *)

\* the values the dataclasses give to the attributes the caller leaves out
DefaultWeight == 1
DefaultTolerance == IntV(0)

Weights == {-10, 0, 1}
Values == {IntV(-1), IntV(5), IntV(10), StrV("5")}
AnswerLists(n) == UNION {[1..m -> Values] : m \in 0..n}
CorrectAnswers == Values \cup {NoneV, StrV("")}
DisplayModes == {"DROPDOWN", "HORIZONTAL_BUTTONS", "VERTICAL_BUTTONS"}
NumericalAnswers == {IntV(10), IntV(-4), FloatV(31)}
Tolerances == {IntV(0), FloatV(0), FloatV(1), FloatV(-5)}
ShortAnswers == {"book", " Ab ", "a:b"}

NoResult == [status |-> "none", text |-> ""]
Result(r) == [status |-> r.status, text |-> r.text]

\* the dataclass-generated __init__ of a Field: a fresh instance, never rendered
Construct(instance) ==
    /\ fld = instance
    /\ fld0 = instance
    /\ out = NoResult
    /\ renders = 0
    /\ stable = TRUE

\* what one call of str(fld) leaves: the instance as mutated, and the result
Rendered(r) ==
    /\ renders < MaxRenders
    /\ fld' = r.self
    /\ out' = Result(r)
    /\ renders' = renders + 1
    /\ stable' = (stable /\ (renders = 0 \/ Result(r) = out))
    /\ UNCHANGED <<fld0, questions, quizText, fs, ret, events, handles>>

\* Numerical(answer, tolerance, show_tolerance, weight)
NewNumerical ==
    \E a \in NumericalAnswers, t \in Tolerances, st \in BOOLEAN, w \in Weights :
        Construct([kind |-> "Numerical", answer |-> a, tolerance |-> t,
                   show_tolerance |-> st, weight |-> w])

\* ShortAnswer(answer, weight)
NewShortAnswer ==
    \E a \in ShortAnswers, w \in Weights :
        Construct([kind |-> "ShortAnswer", answer |-> a, weight |-> w])

\* Multiresponse(correct_answers, incorrect_answers, horizontal, shuffle, weight)
NewMultiresponse ==
    \E c \in AnswerLists(MaxAns), i \in AnswerLists(MaxAns),
       h \in BOOLEAN, sh \in BOOLEAN, w \in Weights :
        /\ Len(c) + Len(i) <= MaxAns
        /\ Construct([kind |-> "Multiresponse", correct_answers |-> c,
                      incorrect_answers |-> i, horizontal |-> h, shuffle |-> sh,
                      weight |-> w])

\* Multichoice(correct_answer, incorrect_answers, display_mode, shuffle, weight)
NewMultichoice ==
    \E c \in CorrectAnswers, i \in AnswerLists(MaxAns - 1),
       d \in DisplayModes, sh \in BOOLEAN, w \in Weights :
        Construct([kind |-> "Multichoice", correct_answer |-> c,
                   incorrect_answers |-> i, display_mode |-> d, shuffle |-> sh,
                   weight |-> w])

\* a second instance built with the attributes the first has now, or was built with
NewEqual ==
    /\ renders > 0
    /\ \E instance \in {fld, fld0} : fld' = instance
    /\ UNCHANGED <<fld0, out, renders, stable>>
    /\ UNCHANGED quizVars

StrNumerical ==
    /\ fld.kind = "Numerical"
    /\ Rendered(Numerical_str(fld))

StrShortAnswer ==
    /\ fld.kind = "ShortAnswer"
    /\ Rendered(ShortAnswer_str(fld))

StrMultiresponse ==
    /\ fld.kind = "Multiresponse"
    /\ Rendered(Multiresponse_str(fld))

StrMultichoice ==
    /\ fld.kind = "Multichoice"
    /\ \E perm \in Shuffles(1 + Len(fld.incorrect_answers)) :
        Rendered(Multichoice_str(fld, perm))

----------------------------------------------------------------------------
(* The Quiz and the file sink.                                             *)

QuestionMarker == "<question type=\"cloze\">"

\* the questions callers build: the one of examples/generate_example_quiz.py,
\* one with contents of several indented lines, and one whose contents quote markup
Questions ==
    { [name |-> "How much is 1+1",
       contents |-> "What is the result of 1+1? "
                    \o Numerical_str([kind |-> "Numerical", answer |-> IntV(2),
                                      tolerance |-> IntV(0), show_tolerance |-> TRUE,
                                      weight |-> 1]).text],
      [name |-> "Lines",
       contents |-> "first\n      second\n   \n     third"],
      [name |-> "Markup",
       contents |-> "Quote <question type=\"cloze\">, </quiz> and ]]> here"] }

\* str(q) of every question the callers build (computed once per question)
QuestionText == [q \in Questions |-> Question_str(q)]

\* the fragments str(q) of the questions, in list order
Fragments(qs) == [n \in 1..Len(qs) |-> QuestionText[qs[n]]]

QuizHeader == "<?xml version=\"1.0\" encoding=\"UTF-8\"?><quiz>\n"

\* Quiz.__str__ joining the fragments with a single newline
Quiz_str_SingleNewline(qs) ==
    QuizHeader \o Join("\n", Fragments(qs)) \o "\n\n</quiz>"

\* Quiz.__str__ joining the fragments of all questions but the last
Quiz_str_DropsLast(qs) ==
    QuizHeader \o Join("\n\n", Fragments(SubSeq(qs, 1, Len(qs) - 1))) \o "\n\n</quiz>"

\* Quiz.__str__
Quiz_str(qs) == QuizHeader \o Join("\n\n", Fragments(qs)) \o "\n\n</quiz>"

QuestionLists == UNION {[1..m -> Questions] : m \in 0..MaxQuestions}

NoFile == [exists |-> FALSE, data |-> ""]

\* how the operating system answers open() and write()
IoOutcomes == {"ok", "open fails", "write fails"}

\* Quiz(questions): the dataclass-generated __init__
NewQuiz ==
    \E qs \in QuestionLists :
        /\ questions' = qs
        /\ quizText' = NoResult
        /\ ret' = "none"
        /\ events' = <<>>
        /\ UNCHANGED <<fs, handles>>
        /\ UNCHANGED fieldVars

\* str(quiz) raising for a quiz with no question, as to_xml_file does
StrQuiz_Validates ==
    /\ quizText' = IF Len(questions) = 0
                   THEN [status |-> "ValueError", text |-> ""]
                   ELSE [status |-> "ok", text |-> Quiz_str(questions)]
    /\ UNCHANGED <<questions, fs, ret, events, handles>>
    /\ UNCHANGED fieldVars

\* str(quiz)
StrQuiz ==
    /\ quizText' = [status |-> "ok", text |-> Quiz_str(questions)]
    /\ UNCHANGED <<questions, fs, ret, events, handles>>
    /\ UNCHANGED fieldVars

\* Quiz.to_xml_file opening the destination before it looks at the questions
Quiz_to_xml_file_OpensFirst(qs, io, file, open) ==
    IF io = "open fails"
    THEN [ret |-> "OSError", fs |-> file, events |-> <<>>, handles |-> open]
    ELSE IF Len(qs) = 0
    THEN [ret |-> "ValueError", fs |-> [exists |-> TRUE, data |-> ""],
          events |-> <<"open", "close">>, handles |-> open + 1 - 1]
    ELSE IF io = "write fails"
    THEN [ret |-> "OSError", fs |-> [exists |-> TRUE, data |-> ""],
          events |-> <<"open", "close">>, handles |-> open + 1 - 1]
    ELSE [ret |-> "ok", fs |-> [exists |-> TRUE, data |-> Quiz_str(qs) \o "\n"],
          events |-> <<"open", "write", "close">>, handles |-> open + 1 - 1]

\* Quiz.to_xml_file with open() and close() around the write, and no `with`
Quiz_to_xml_file_NoWith(qs, io, file, open) ==
    IF Len(qs) = 0
    THEN [ret |-> "ValueError", fs |-> file, events |-> <<>>, handles |-> open]
    ELSE IF io = "open fails"
    THEN [ret |-> "OSError", fs |-> file, events |-> <<>>, handles |-> open]
    ELSE IF io = "write fails"
    THEN [ret |-> "OSError", fs |-> [exists |-> TRUE, data |-> ""],
          events |-> <<"open">>, handles |-> open + 1]
    ELSE [ret |-> "ok", fs |-> [exists |-> TRUE, data |-> Quiz_str(qs) \o "\n"],
          events |-> <<"open", "write", "close">>, handles |-> open + 1 - 1]

\* Quiz.to_xml_file opening the destination for appending (mode "a")
Quiz_to_xml_file_Appends(qs, io, file, open) ==
    IF Len(qs) = 0
    THEN [ret |-> "ValueError", fs |-> file, events |-> <<>>, handles |-> open]
    ELSE IF io = "open fails"
    THEN [ret |-> "OSError", fs |-> file, events |-> <<>>, handles |-> open]
    ELSE IF io = "write fails"
    THEN [ret |-> "OSError", fs |-> [exists |-> TRUE, data |-> file.data],
          events |-> <<"open", "close">>, handles |-> open + 1 - 1]
    ELSE [ret |-> "ok",
          fs |-> [exists |-> TRUE, data |-> file.data \o Quiz_str(qs) \o "\n"],
          events |-> <<"open", "write", "close">>, handles |-> open + 1 - 1]

\* Quiz.to_xml_file(output_path) on a quiz of questions qs, io the answer of the
\* operating system: [ret, fs, events, handles] as the call leaves them
Quiz_to_xml_file(qs, io, file, open) ==
    IF Len(qs) = 0
    THEN [ret |-> "ValueError", fs |-> file, events |-> <<>>, handles |-> open]
    ELSE IF io = "open fails"
    THEN [ret |-> "OSError", fs |-> file, events |-> <<>>, handles |-> open]
    ELSE IF io = "write fails"
    THEN [ret |-> "OSError", fs |-> [exists |-> TRUE, data |-> ""],
          events |-> <<"open", "close">>, handles |-> open + 1 - 1]
    ELSE [ret |-> "ok", fs |-> [exists |-> TRUE, data |-> Quiz_str(qs) \o "\n"],
          events |-> <<"open", "write", "close">>, handles |-> open + 1 - 1]

\* quiz.to_xml_file(output_path)
QuizToXmlFile ==
    \E io \in IoOutcomes :
        \E r \in {Quiz_to_xml_file(questions, io, fs, handles)} :
           /\ ret' = r.ret
           /\ fs' = r.fs
           /\ events' = r.events
           /\ handles' = r.handles
           /\ UNCHANGED <<questions, quizText>>
           /\ UNCHANGED fieldVars

\* Question.to_xml_file writing str(self) alone, with no Quiz around it
QuestionToXmlFile_WritesFragment ==
    \E q \in Questions, io \in IoOutcomes :
        \E r \in {Quiz_to_xml_file(<<q>>, io, fs, handles)} :
           /\ questions' = <<q>>
           /\ quizText' = NoResult
           /\ ret' = r.ret
           /\ fs' = [r.fs EXCEPT !.data = IF r.ret = "ok" THEN QuestionText[q] \o "\n" ELSE @]
           /\ events' = r.events
           /\ handles' = r.handles
           /\ UNCHANGED fieldVars

\* Question.to_xml_file(output_path): Quiz([self]).to_xml_file(output_path)
QuestionToXmlFile ==
    \E q \in Questions, io \in IoOutcomes :
        \E r \in {Quiz_to_xml_file(<<q>>, io, fs, handles)} :
           /\ questions' = <<q>>
           /\ quizText' = NoResult
           /\ ret' = r.ret
           /\ fs' = r.fs
           /\ events' = r.events
           /\ handles' = r.handles
           /\ UNCHANGED fieldVars

\* the file at output_path is removed by its owner
RemoveFile ==
    /\ fs.exists
    /\ fs' = NoFile
    /\ UNCHANGED <<questions, quizText, ret, events, handles>>
    /\ UNCHANGED fieldVars

----------------------------------------------------------------------------
(* The table renderer of the networking example: a TCPMessage is built     *)
(* with its hidden_fields and to_table_row writes one cell for each field, *)
(* a Field token in the place of a hidden one. The message takes the place *)
(* of the instance (fld) and the row that of the rendered text (out).      *)

\* the hidden_fields lists hold at most MaxHidden names
MaxHidden == 2

\* dataclasses.fields(self): the fields of TCPMessage with their declared types
TCPMessageFields ==
    << [name |-> "SYN", type |-> "int"], [name |-> "ACK", type |-> "int"],
       [name |-> "FIN", type |-> "int"], [name |-> "seq_number", type |-> "int"],
       [name |-> "ack_number", type |-> "int"], [name |-> "data_length", type |-> "int"],
       [name |-> "source_ip", type |-> "str"], [name |-> "source_port", type |-> "int"],
       [name |-> "destination_ip", type |-> "str"],
       [name |-> "destination_port", type |-> "int"],
       [name |-> "hidden_fields", type |-> "List[str]"] >>

\* field_names = [f.name for f in dataclasses.fields(self)]
field_names == {TCPMessageFields[n].name : n \in 1..Len(TCPMessageFields)}

DEBUG == FALSE

\* the cell of one field: a token when the field is hidden, else its value
\* ("-" for the ack_number of a message without ACK)
TableCell(self, field) ==
    IF Len(self.hidden_fields) > 0
       /\ \E n \in 1..Len(self.hidden_fields) : self.hidden_fields[n] = field.name
    THEN IF field.type = "int"
         THEN Numerical_str([kind |-> "Numerical", answer |-> self[field.name],
                             tolerance |-> DefaultTolerance, show_tolerance |-> TRUE,
                             weight |-> DefaultWeight])
         ELSE IF field.type = "str"
         THEN ShortAnswer_str([kind |-> "ShortAnswer", answer |-> self[field.name].s,
                               weight |-> DefaultWeight])
         ELSE Raised("ValueError", self)
    ELSE IF field.name = "ack_number" /\ self.ACK = IntV(0)
    THEN Returned("-", self)
    ELSE Returned(PyStr(self[field.name]), self)

\* the loop over dataclasses.fields(self), s the row written so far
RECURSIVE TableCells(_, _, _)
TableCells(self, fields, s) ==
    IF Len(fields) = 0 THEN Returned(s \o "</tr>\n", self)
    ELSE IF Head(fields).name = "hidden_fields" THEN TableCells(self, Tail(fields), s)
    ELSE LET cell == TableCell(self, Head(fields))
         IN IF cell.status # "ok" THEN Raised(cell.status, self)
            ELSE TableCells(self, Tail(fields),
                            s \o "\t<td>"
                              \o (IF DEBUG THEN Head(fields).name \o ": " ELSE "")
                              \o cell.text \o "</td>\n")

\* TCPMessage.to_table_row
TCPMessage_to_table_row(self) ==
    IF \E n \in 1..Len(self.hidden_fields) : self.hidden_fields[n] \notin field_names
    THEN Raised("ValueError", self)
    ELSE TableCells(self, TCPMessageFields, "<tr>\n")

\* the names the callers hide, and the lists of them
HiddenNames == {"SYN", "seq_number", "ack_number", "source_ip", "hidden_fields", "bogus"}
HiddenLists == UNION {[1..m -> HiddenNames] : m \in 0..MaxHidden}

\* TCPMessage(SYN, ACK, FIN, seq_number, ack_number, data_length, source_ip,
\* source_port, destination_ip, destination_port, hidden_fields)
NewTCPMessage ==
    \E ack \in {0, 1}, hidden \in HiddenLists :
        Construct([kind |-> "TCPMessage", SYN |-> IntV(1), ACK |-> IntV(ack),
                   FIN |-> IntV(0), seq_number |-> IntV(555), ack_number |-> IntV(13),
                   data_length |-> IntV(0), source_ip |-> StrV("10.0.0.1"),
                   source_port |-> IntV(80), destination_ip |-> StrV("10.0.0.2"),
                   destination_port |-> IntV(8080), hidden_fields |-> hidden])

\* msg.to_table_row()
ToTableRow ==
    /\ fld.kind = "TCPMessage"
    /\ Rendered(TCPMessage_to_table_row(fld))

----------------------------------------------------------------------------

(* The specifications: Spec renders one Field instance, built with any of  *)
(* the callers' values; QuizSpec builds quizzes, serializes and writes     *)
(* them; RowSpec builds a TCPMessage and renders its table row.            *)

NoQuiz ==
    /\ questions = <<>>
    /\ quizText = NoResult
    /\ fs = NoFile
    /\ ret = "none"
    /\ events = <<>>
    /\ handles = 0

Init ==
    /\ NewNumerical \/ NewShortAnswer \/ NewMultiresponse \/ NewMultichoice
    /\ NoQuiz

Next ==
    \/ NewEqual
    \/ StrNumerical
    \/ StrShortAnswer
    \/ StrMultiresponse
    \/ StrMultichoice

Spec == Init /\ [][Next]_vars

QuizInit ==
    /\ Construct([kind |-> "ShortAnswer", answer |-> "book", weight |-> 1])
    /\ NoQuiz

QuizNext ==
    \/ NewQuiz
    \/ StrQuiz
    \/ QuizToXmlFile
    \/ QuestionToXmlFile
    \/ RemoveFile

QuizSpec == QuizInit /\ [][QuizNext]_vars

RowInit ==
    /\ NewTCPMessage
    /\ NoQuiz

RowNext == ToTableRow

RowSpec == RowInit /\ [][RowNext]_vars

----------------------------------------------------------------------------
(* The claims.                                                             *)

\* the number of places of t where p occurs
Count(t, p) == Cardinality(Occurrences(t, p))

\* C1: Quiz.to_xml_file on a Quiz with no question raises ValueError before the
\* destination is opened: no handle is acquired, no file is created and the file
\* system is as it was before the call, whatever the operating system would answer.
C1_EmptyQuizRaisesBeforeOpen ==
    [][(QuizToXmlFile /\ Len(questions) = 0) =>
          (/\ ret' = "ValueError"
           /\ events' = <<>>
           /\ fs' = fs
           /\ handles' = handles)]_vars

\* an empty quiz was written and raised, and there is no file at output_path
C1_Witness == Len(questions) = 0 /\ ret = "ValueError" /\ ~fs.exists

\* the place in str(Quiz(qs)) where the fragment of the n-th question starts
RECURSIVE FragmentStart(_, _)
FragmentStart(qs, n) ==
    IF n = 1 THEN Len(QuizHeader) + 1
    ELSE FragmentStart(qs, n - 1) + Len(QuestionText[qs[n - 1]]) + 2

\* the occurrences of the marker inside the name and the contents of the questions
RECURSIVE QuotedMarkers(_)
QuotedMarkers(qs) ==
    IF Len(qs) = 0 THEN 0
    ELSE Count(Head(qs).name, QuestionMarker) + Count(Head(qs).contents, QuestionMarker)
         + QuotedMarkers(Tail(qs))

\* C2 as stated: str(Quiz) of N questions contains exactly N occurrences of
\* <question type="cloze">.
C2_ExactlyNMarkers ==
    quizText.status = "ok" => Count(quizText.text, QuestionMarker) = Len(questions)

\* C2, amended: str(Quiz) of N questions has the marker at the start of the
\* fragment of each question, the fragments in list order; it has N occurrences
\* plus those that the names and contents of the questions contain themselves
\* (exactly N when no name or contents contains the marker).
C2_MarkerPerFragment ==
    quizText.status = "ok" =>
        /\ \A n \in 1..Len(questions) :
              /\ StartsWithAt(quizText.text, QuestionMarker, FragmentStart(questions, n))
              /\ StartsWithAt(quizText.text, QuestionText[questions[n]],
                              FragmentStart(questions, n))
        /\ Count(quizText.text, QuestionMarker)
              = Len(questions) + QuotedMarkers(questions)
        /\ (QuotedMarkers(questions) = 0
              => Occurrences(quizText.text, QuestionMarker)
                    = {FragmentStart(questions, n) : n \in 1..Len(questions)})

\* a quiz of two different questions, one with the marker in its contents, was rendered
C2_Witness ==
    /\ quizText.status = "ok"
    /\ Len(questions) = 2
    /\ questions[1] # questions[2]
    /\ QuotedMarkers(questions) = 1

C4_MultichoiceNeedsIncorrect ==
    (fld.kind = "Multichoice" /\ renders > 0) =>
        /\ out.status \in {"ok", "ValueError"}
        /\ (out.status = "ValueError" <=> Len(fld0.incorrect_answers) = 0)
        /\ (out.status = "ValueError" => out.text = "")
        /\ (out.status = "ok" => Len(out.text) > 0)

\* a Multichoice with a correct answer and no incorrect answer was rendered and raised
C4_Witness ==
    /\ fld.kind = "Multichoice"
    /\ renders > 0
    /\ Len(fld0.incorrect_answers) = 0
    /\ fld0.correct_answer.k = "int"
    /\ out.status = "ValueError"

\* C5 as stated: rendering a Multichoice whose correct_answer is None or empty
\* fails with a validation error instead of emitting a token.
C5_MultichoiceNeedsCorrect ==
    (/\ fld.kind = "Multichoice"
     /\ renders > 0
     /\ fld0.correct_answer \in {NoneV, StrV("")}) => out.status = "ValueError"

\* a token read back: weight is the text before the first ":" (after the opening
\* brace), kind the text between the first and the second ":", rest what follows
ReadToken(t) ==
    LET colon1 == Find(t, ":")
        after == SubSeq(t, colon1 + 1, Len(t))
        colon2 == Find(after, ":")
    IN [colon1 |-> colon1, colon2 |-> colon2,
        weight |-> SubSeq(t, 2, colon1 - 1),
        kind |-> SubSeq(after, 1, colon2 - 1),
        rest |-> SubSeq(after, colon2 + 1, Len(after))]

WeightPart(t) == ReadToken(t).weight
KindPart(t) == ReadToken(t).kind

\* the entries of the body of a MULTIRESPONSE or MULTICHOICE token, and their texts
BodyEntries(t) == Split(SubSeq(ReadToken(t).rest, 1, Len(ReadToken(t).rest) - 1), "~")
EntryText(e) == IF StartsWithAt(e, "=", 1) THEN SubSeq(e, 2, Len(e)) ELSE e

\* a <= b in the lexicographic order of the code points
LexLeq(a, b) ==
    \E n \in 0..(IF Len(a) < Len(b) THEN Len(a) ELSE Len(b)) :
        /\ SubSeq(a, 1, n) = SubSeq(b, 1, n)
        /\ \/ n = Len(a)
           \/ n < Len(b) /\ Ord(Char(a, n + 1)) < Ord(Char(b, n + 1))

\* a valid Multiresponse or Multichoice with shuffle=false has been rendered
SortedRender ==
    /\ fld.kind \in {"Multiresponse", "Multichoice"}
    /\ renders > 0
    /\ out.status = "ok"
    /\ ~fld.shuffle

\* C6: with shuffle=false the entries of the rendered body of a Multiresponse or
\* Multichoice are in non-decreasing lexicographic order of their text, the
\* answers taken as text (10 before 5), not by numeric value.
C6_EntriesInTextOrder ==
    SortedRender =>
        LET entries == BodyEntries(out.text)
        IN \A n \in 1..(Len(entries) - 1) :
              LexLeq(EntryText(entries[n]), EntryText(entries[n + 1]))

\* the integers 5 and 10 were given in this order and are rendered 10 before 5
C6_Witness ==
    /\ SortedRender
    /\ fld.kind = "Multiresponse"
    /\ fld0.correct_answers = <<IntV(5), IntV(10)>>
    /\ BodyEntries(out.text) = <<"=10", "=5">>

\* the attributes make the render deterministic
Deterministic ==
    \/ fld.kind \in {"Numerical", "ShortAnswer"}
    \/ fld.kind \in {"Multiresponse", "Multichoice"} /\ ~fld.shuffle

\* C7: for Numerical, ShortAnswer, and Multiresponse and Multichoice with
\* shuffle=false, every render of an instance, and of an instance with equal
\* attributes, gives the same result as the first one, also after the first
\* render has replaced the stored answers by their text.
C7_RenderIsIdempotent == Deterministic => stable

\* an instance was rendered, which replaced integers by text, and rendered again
C7_Witness ==
    /\ Deterministic
    /\ fld.kind = "Multichoice"
    /\ renders >= 2
    /\ out.status = "ok"
    /\ fld # fld0
    /\ stable

\* the KIND of each variant
KindName(kind) ==
    IF kind = "Numerical" THEN "NUMERICAL"
    ELSE IF kind = "Multiresponse" THEN "MULTIRESPONSE"
    ELSE IF kind = "Multichoice" THEN "MULTICHOICE"
    ELSE "SHORTANSWER"

\* the KIND of a header: the header up to its "_", if it has one
KindOfHeader(h) == IF Find(h, "_") = 0 THEN h ELSE SubSeq(h, 1, Find(h, "_") - 1)
SuffixOfHeader(h) == IF Find(h, "_") = 0 THEN "" ELSE SubSeq(h, Find(h, "_"), Len(h))

\* C8: every token rendered starts with {<weight>:<KIND><suffix>: and contains the
\* closing brace; reading the text up to the first ":" gives back the weight, and
\* up to the second ":" the KIND of the variant.
C8_TokenGrammar ==
    (renders > 0 /\ out.status = "ok") =>
        LET token == ReadToken(out.text)
        IN /\ StartsWithAt(out.text, "{", 1)
           /\ token.colon1 > 2
           /\ TextToInt(token.weight) = fld.weight
           /\ token.colon2 > 1
           /\ KindOfHeader(token.kind) = KindName(fld.kind)
           /\ (fld.kind \in {"Numerical", "ShortAnswer"}
                 => SuffixOfHeader(token.kind) = "")
           /\ StartsWithAt(out.text, "{" \o IntToStr(fld.weight) \o ":"
                                          \o KindName(fld.kind)
                                          \o SuffixOfHeader(token.kind) \o ":", 1)
           /\ Find(token.rest, "}") > 0

\* a Numerical of weight -10 was rendered and its token read back
C8_Witness ==
    /\ renders > 0
    /\ out.status = "ok"
    /\ fld.kind = "Numerical"
    /\ fld.weight = -10
    /\ WeightPart(out.text) = "-10"
    /\ KindPart(out.text) = "NUMERICAL"

\* C9: the header of a Multiresponse token is MULTIRESPONSE followed by a suffix
\* the two flags determine: none, _H, _S, _HS; the four are distinct.
C9_MultiresponseSuffix ==
    (fld.kind = "Multiresponse" /\ renders > 0 /\ out.status = "ok") =>
        LET suffix == SuffixOfHeader(KindPart(out.text))
        IN /\ KindOfHeader(KindPart(out.text)) = "MULTIRESPONSE"
           /\ (~fld.horizontal /\ ~fld.shuffle => suffix = "")
           /\ (fld.horizontal /\ ~fld.shuffle => suffix = "_H")
           /\ (~fld.horizontal /\ fld.shuffle => suffix = "_S")
           /\ (fld.horizontal /\ fld.shuffle => suffix = "_HS")
           /\ fld.horizontal = (Find(suffix, "H") > 0)
           /\ fld.shuffle = (Find(suffix, "S") > 0)

\* a Multiresponse with shuffle only was rendered: the quirk of the connector
C9_Witness ==
    /\ fld.kind = "Multiresponse"
    /\ renders > 0
    /\ out.status = "ok"
    /\ ~fld.horizontal
    /\ fld.shuffle
    /\ KindPart(out.text) = "MULTIRESPONSE_S"

\* C10: the Multichoice token is {weight:MULTICHOICE<suffix>:<body>}, the suffix
\* determined by display_mode and shuffle: none/_S for DROPDOWN, _H/_HS for
\* HORIZONTAL_BUTTONS, _V/_VS for VERTICAL_BUTTONS; the six are distinct.
C10_MultichoiceSuffix ==
    (fld.kind = "Multichoice" /\ renders > 0 /\ out.status = "ok") =>
        LET token == ReadToken(out.text)
            suffix == SuffixOfHeader(token.kind)
            letter == IF fld.display_mode = "HORIZONTAL_BUTTONS" THEN "H"
                      ELSE IF fld.display_mode = "VERTICAL_BUTTONS" THEN "V"
                      ELSE ""
            expected == IF letter = "" /\ ~fld.shuffle THEN ""
                        ELSE "_" \o letter \o (IF fld.shuffle THEN "S" ELSE "")
        IN /\ StartsWithAt(out.text, "{" \o IntToStr(fld.weight) \o ":MULTICHOICE"
                                         \o expected \o ":", 1)
           /\ token.kind = "MULTICHOICE" \o expected
           /\ suffix = expected
           /\ suffix \in {"", "_S", "_H", "_HS", "_V", "_VS"}
           /\ fld.shuffle = (Find(suffix, "S") > 0)
           /\ (fld.display_mode = "HORIZONTAL_BUTTONS") = (Find(suffix, "H") > 0)
           /\ (fld.display_mode = "VERTICAL_BUTTONS") = (Find(suffix, "V") > 0)
           /\ Char(out.text, Len(out.text)) = "}"

\* a shuffled Multichoice with vertical buttons was rendered
C10_Witness ==
    /\ fld.kind = "Multichoice"
    /\ renders > 0
    /\ out.status = "ok"
    /\ fld.display_mode = "VERTICAL_BUTTONS"
    /\ fld.shuffle
    /\ KindPart(out.text) = "MULTICHOICE_VS"

\* the places of the entries that carry the "=" of a correct answer
MarkedEntries(entries) == {n \in 1..Len(entries) : StartsWithAt(entries[n], "=", 1)}

\* no answer text begins with "=" or contains "~"
PlainAnswers(answers) ==
    \A n \in 1..Len(answers) :
        ~StartsWithAt(PyStr(answers[n]), "=", 1) /\ Find(PyStr(answers[n]), "~") = 0

\* a valid Multichoice has been rendered
MultichoiceRendered == fld.kind = "Multichoice" /\ renders > 0 /\ out.status = "ok"

\* C11: every successful render of a Multichoice, with shuffle true or false and
\* whatever order the shuffle produces, has a body of 1 + len(incorrect_answers)
\* entries joined by "~"; exactly one entry is "="-prefixed and its text is the
\* string form of correct_answer (no answer text beginning with "=" or holding "~").
C11_MultichoiceOneCorrectEntry ==
    (MultichoiceRendered /\ PlainAnswers(<<fld0.correct_answer>> \o fld0.incorrect_answers)) =>
        LET entries == BodyEntries(out.text)
            marked == MarkedEntries(entries)
        IN /\ Len(entries) = 1 + Len(fld0.incorrect_answers)
           /\ Cardinality(marked) = 1
           /\ \A n \in marked : EntryText(entries[n]) = PyStr(fld0.correct_answer)

\* a shuffled Multichoice whose correct entry, the integer 5, came out last
C11_Witness ==
    /\ MultichoiceRendered
    /\ fld.shuffle
    /\ fld0.correct_answer = IntV(5)
    /\ Len(fld0.incorrect_answers) = 1
    /\ MarkedEntries(BodyEntries(out.text)) = {2}
    /\ BodyEntries(out.text)[2] = "=5"

\* a Numerical has been rendered
NumericalRendered == fld.kind = "Numerical" /\ renders > 0 /\ out.status = "ok"

\* the tolerance annotation of a Numerical
ToleranceNote(tolerance) == " (\\(\\pm " \o PyStr(tolerance) \o "\\))"

ShortAnswerRendered == fld.kind = "ShortAnswer" /\ renders > 0 /\ out.status = "ok"

\* C13: a ShortAnswer renders exactly {weight:SHORTANSWER:=answer}, the answer
\* text embedded as it is (not escaped, trimmed or changed in case); with the
\* default weight 1, ShortAnswer('book') renders exactly {1:SHORTANSWER:=book}.
C13_ShortAnswerToken ==
    ShortAnswerRendered =>
        LET prefix == "{" \o IntToStr(fld.weight) \o ":SHORTANSWER:="
        IN /\ StartsWithAt(out.text, prefix, 1)
           /\ Len(out.text) = Len(prefix) + Len(fld.answer) + 1
           /\ SubSeq(out.text, Len(prefix) + 1, Len(out.text) - 1) = fld.answer
           /\ Char(out.text, Len(out.text)) = "}"
           /\ (fld.answer = "book" /\ fld.weight = DefaultWeight
                 => out.text = "{1:SHORTANSWER:=book}")

\* an answer with blanks around it and a capital was rendered with the default weight
C13_Witness ==
    /\ ShortAnswerRendered
    /\ fld.answer = " Ab "
    /\ fld.weight = DefaultWeight
    /\ out.text = "{1:SHORTANSWER:= Ab }"

\* the fragment of the n-th question, cut out of str(Quiz(qs))
FragmentOf(t, qs, n) ==
    SubSeq(t, FragmentStart(qs, n), FragmentStart(qs, n) + Len(QuestionText[qs[n]]) - 1)

\* the text of a fragment between <![CDATA[ and the ]]></text> that follows it
CdataOf(fragment) ==
    LET start == Find(fragment, "<![CDATA[") + Len("<![CDATA[")
        stop == FindFrom(fragment, "]]></text>", start)
    IN SubSeq(fragment, start, stop - 1)

\* C14: for every contents, also of several lines with leading blanks or with
\* lines of blanks only, the text between <![CDATA[ and ]]></text> in
\* str(Question) is the contents, character for character.
C14_ContentsVerbatim ==
    quizText.status = "ok" =>
        \A n \in 1..Len(questions) :
            CdataOf(FragmentOf(quizText.text, questions, n)) = questions[n].contents

\* C15: Question.to_xml_file(path) does what Quiz([question]).to_xml_file(path)
\* does: whatever the operating system answers, the call ends as the call on the
\* quiz of that one question ends, with the same file content, and it never
\* raises the ValueError of the empty quiz.
C15_QuestionWritesOneElementQuiz ==
    [][QuestionToXmlFile =>
          /\ Len(questions') = 1
          /\ \E io \in IoOutcomes :
                Quiz_to_xml_file(questions', io, fs, handles)
                    = [ret |-> ret', fs |-> fs', events |-> events', handles |-> handles']
          /\ ret' # "ValueError"
          /\ (ret' = "ok" =>
                fs'.data = QuizHeader \o QuestionText[questions'[1]] \o "\n\n</quiz>\n")]_vars

\* the file holds the quiz of the one question "Lines", written with success
C15_Witness ==
    /\ Len(questions) = 1
    /\ questions[1].name = "Lines"
    /\ quizText = NoResult
    /\ ret = "ok"
    /\ fs.exists
    /\ fs.data = QuizHeader \o QuestionText[questions[1]] \o "\n\n</quiz>\n"

\* the header without its newline, and the closing tag
XmlHeader == SubSeq(QuizHeader, 1, Len(QuizHeader) - 1)
ClosingTag == "</quiz>"

\* the occurrences of p inside the names and the contents of the questions
RECURSIVE Quoted(_, _)
Quoted(qs, p) ==
    IF Len(qs) = 0 THEN 0
    ELSE Count(Head(qs).name, p) + Count(Head(qs).contents, p) + Quoted(Tail(qs), p)

\* str(Quiz) is the header and a newline, the fragments in list order with one
\* blank line between consecutive fragments, a blank line and the closing tag,
\* which ends the text
EnvelopeAroundFragments(t, qs) ==
    LET N == Len(qs)
        tail == IF N = 0 THEN Len(QuizHeader) + 1 ELSE FragmentStart(qs, N + 1) - 2
    IN /\ StartsWithAt(t, QuizHeader, 1)
       /\ \A n \in 1..N : FragmentOf(t, qs, n) = QuestionText[qs[n]]
       /\ \A n \in 1..(N - 1) :
             SubSeq(t, FragmentStart(qs, n + 1) - 2, FragmentStart(qs, n + 1) - 1) = "\n\n"
       /\ SubSeq(t, tail, Len(t)) = "\n\n" \o ClosingTag
       /\ SubSeq(t, Len(t) - Len(ClosingTag) + 1, Len(t)) = ClosingTag

\* C16 as stated: str(Quiz) is the header and a newline, the fragments in list
\* order with exactly one blank line between consecutive fragments, then the
\* closing </quiz> as the last characters; the header and the closing tag each
\* occur once.
C16_EnvelopeOnce ==
    quizText.status = "ok" =>
        /\ EnvelopeAroundFragments(quizText.text, questions)
        /\ Count(quizText.text, XmlHeader) = 1
        /\ Count(quizText.text, ClosingTag) = 1

\* C16, amended: str(Quiz) has the structure above, beginning with the header
\* and ending with </quiz>; the header and the closing tag occur once each, plus
\* the occurrences that the names and contents of the questions hold themselves.
C16_Envelope ==
    quizText.status = "ok" =>
        /\ EnvelopeAroundFragments(quizText.text, questions)
        /\ Count(quizText.text, XmlHeader) = 1 + Quoted(questions, XmlHeader)
        /\ Count(quizText.text, ClosingTag) = 1 + Quoted(questions, ClosingTag)
        /\ (Quoted(questions, ClosingTag) = 0
              => Occurrences(quizText.text, ClosingTag)
                    = {Len(quizText.text) - Len(ClosingTag) + 1})

\* a quiz of two questions was rendered, the second one quoting </quiz>
C16_Witness ==
    /\ quizText.status = "ok"
    /\ Len(questions) = 2
    /\ Quoted(<<questions[1]>>, ClosingTag) = 0
    /\ Quoted(<<questions[2]>>, ClosingTag) = 1
    /\ Count(quizText.text, ClosingTag) = 2

\* every character of t is white space
AllSpace(t) == \A n \in 1..Len(t) : IsSpace(Char(t, n))

\* the name of the element of a start tag, inner the text between "<" and ">"
ElementName(inner) ==
    IF Find(inner, " ") = 0 THEN inner ELSE SubSeq(inner, 1, Find(inner, " ") - 1)

\* the state of a reader of an XML document: p the place it has come to, open
\* the names of the elements entered and not yet left, roots the number of root
\* elements begun, ok whether the text read so far can be well-formed
Reader(p, open, roots) == [p |-> p, open |-> open, roots |-> roots, ok |-> TRUE]
Rejected == [p |-> 0, open |-> <<>>, roots |-> 0, ok |-> FALSE]

\* one step of the reader: the character data up to the next "<" and the
\* markup there. Character data holds no "&" (the documents use no references)
\* and no "]]>", and is white space outside the root; the declaration comes
\* first; a CDATA section ends at the first "]]>"; an end tag names the
\* innermost open element; a second root element is rejected.
ReadMarkup(t, st) ==
    LET next == FindFrom(t, "<", st.p)
        m == IF next = 0 THEN Len(t) + 1 ELSE next
        data == SubSeq(t, st.p, m - 1)
        close == FindFrom(t, ">", m + 1)
        inner == SubSeq(t, m + 1, close - 1)
        piEnd == FindFrom(t, "?>", m + 2)
        cdataEnd == FindFrom(t, "]]>", m + 9)
    IN IF Find(data, "&") > 0 \/ Find(data, "]]>") > 0
          \/ (st.open = <<>> /\ ~AllSpace(data))
       THEN Rejected
       ELSE IF m > Len(t) THEN Reader(m, st.open, st.roots)
       ELSE IF StartsWithAt(t, "<?", m)
       THEN IF m = 1 /\ piEnd > 0 THEN Reader(piEnd + 2, st.open, st.roots) ELSE Rejected
       ELSE IF StartsWithAt(t, "<![CDATA[", m)
       THEN IF st.open # <<>> /\ cdataEnd > 0
            THEN Reader(cdataEnd + 3, st.open, st.roots) ELSE Rejected
       ELSE IF StartsWithAt(t, "</", m)
       THEN IF st.open # <<>> /\ close > 0
               /\ SubSeq(t, m + 2, close - 1) = st.open[Len(st.open)]
            THEN Reader(close + 1, SubSeq(st.open, 1, Len(st.open) - 1), st.roots)
            ELSE Rejected
       ELSE IF close > m + 1 /\ Find(inner, "<") = 0 /\ ~IsSpace(Char(inner, 1))
               /\ (st.open = <<>> => st.roots = 0)
            THEN Reader(close + 1, Append(st.open, ElementName(inner)),
                        IF st.open = <<>> THEN st.roots + 1 ELSE st.roots)
            ELSE Rejected

\* at most steps steps of the reader
RECURSIVE ReadSome(_, _, _)
ReadSome(t, st, steps) ==
    IF steps = 0 \/ ~st.ok \/ st.p > Len(t) THEN st
    ELSE ReadSome(t, ReadMarkup(t, st), steps - 1)

\* rounds times at most steps steps of the reader
RECURSIVE ReadRounds(_, _, _, _)
ReadRounds(t, st, steps, rounds) ==
    IF rounds = 0 THEN st
    ELSE ReadSome(t, ReadRounds(t, st, steps, rounds - 1), steps)

\* the least k with k * k >= n
Root(n) == CHOOSE k \in 1..(n + 1) : k * k >= n /\ (k - 1) * (k - 1) < n

\* t is a well-formed XML document: the reader comes to its end with every
\* element left and one root element seen (each step reads one "<" at least, so
\* as many steps as t has "<", and one more, are enough)
WellFormed(t) ==
    LET steps == Root(Count(t, "<") + 1)
        end == ReadRounds(t, Reader(1, <<>>, 0), steps, steps)
    IN end.ok /\ end.p > Len(t) /\ end.open = <<>> /\ end.roots = 1

\* C17: for every Quiz with at least one question, whatever the names and the
\* contents of the questions are, the text that to_xml_file writes is one
\* well-formed XML document with the single root element quiz.
C17_WrittenFileWellFormed ==
    (ret = "ok" /\ fs.exists) =>
        /\ WellFormed(fs.data)
        /\ StartsWithAt(fs.data, QuizHeader, 1)

\* the places of the handle event e in the events of the last call
EventsAt(e) == {n \in 1..Len(events) : events[n] = e}

\* C18: a call of Quiz.to_xml_file acquires at most one file handle, only after
\* the check of the questions has passed, and releases it before it returns or
\* raises: after the call no handle is open, whether it returned, raised the
\* ValueError of the empty quiz, or raised an error of the operating system.
C18_HandleReleased ==
    /\ handles = 0
    /\ Cardinality(EventsAt("open")) <= 1
    /\ Cardinality(EventsAt("close")) = Cardinality(EventsAt("open"))
    /\ (events # <<>> => events[1] = "open" /\ events[Len(events)] = "close")
    /\ (ret = "ValueError" => events = <<>>)
    /\ (ret # "none" /\ Len(questions) = 0 => events = <<>>)
    /\ (ret = "ok" => events = <<"open", "write", "close">>)

\* the write failed after the destination was opened, and the handle was released
C18_Witness ==
    /\ ret = "OSError"
    /\ events = <<"open", "close">>
    /\ handles = 0
    /\ fs.exists

\* entry n is before entry m, they have the same text, and P holds of the pair
TiedPairs(entries, P(_, _)) ==
    {pair \in (1..Len(entries)) \X (1..Len(entries)) :
        /\ pair[1] < pair[2]
        /\ EntryText(entries[pair[1]]) = EntryText(entries[pair[2]])
        /\ P(entries[pair[1]], entries[pair[2]])}

IncorrectThenCorrect(a, b) == ~StartsWithAt(a, "=", 1) /\ StartsWithAt(b, "=", 1)
CorrectThenIncorrect(a, b) == StartsWithAt(a, "=", 1) /\ ~StartsWithAt(b, "=", 1)

\* C19 as stated: with shuffle=false the order is a stable sort by the text
\* alone, so entries with equal text keep their build order: the correct entry
\* is before an incorrect entry with the same text.
C19_StableByTextOnly ==
    SortedRender =>
        LET entries == BodyEntries(out.text)
        IN /\ \A n \in 1..(Len(entries) - 1) :
                 LexLeq(EntryText(entries[n]), EntryText(entries[n + 1]))
           /\ TiedPairs(entries, IncorrectThenCorrect) = {}

\* C19, amended: with shuffle=false the entries are sorted by the pair (text,
\* correctness flag): in non-decreasing order of text, and among entries with
\* the same text the incorrect ones before the correct ones.
C19_SortedByTextThenFlag ==
    SortedRender =>
        LET entries == BodyEntries(out.text)
        IN /\ \A n \in 1..(Len(entries) - 1) :
                 LexLeq(EntryText(entries[n]), EntryText(entries[n + 1]))
           /\ TiedPairs(entries, CorrectThenIncorrect) = {}

\* the correct answer 5 and the incorrect answer '5' are rendered incorrect first
C19_Witness ==
    /\ SortedRender
    /\ fld.kind = "Multiresponse"
    /\ fld0.correct_answers = <<IntV(5)>>
    /\ fld0.incorrect_answers = <<StrV("5")>>
    /\ BodyEntries(out.text) = <<"5", "=5">>

\* the entries of the answers in their source order, correct ones marked
SourceOrder(correct, incorrect) ==
    [n \in 1..Len(correct) |-> "=" \o PyStr(correct[n])]
    \o [n \in 1..Len(incorrect) |-> PyStr(incorrect[n])]

\* a valid Multiresponse with shuffle=true has been rendered
ShuffledMultiresponse ==
    /\ fld.kind = "Multiresponse"
    /\ renders > 0
    /\ out.status = "ok"
    /\ fld.shuffle

\* C20: the body of a valid Multiresponse with shuffle=true lists the correct
\* answers in their source order, each "="-prefixed, then the incorrect answers
\* in their source order; the renderer permutes nothing, and every render gives
\* the same output.
C20_MultiresponseShuffleKeepsSourceOrder ==
    ShuffledMultiresponse =>
        /\ BodyEntries(out.text)
              = SourceOrder(fld0.correct_answers, fld0.incorrect_answers)
        /\ stable

\* 5 was given as correct and -1 as incorrect; two renders gave 5 before -1
C20_Witness ==
    /\ ShuffledMultiresponse
    /\ renders >= 2
    /\ fld0.correct_answers = <<IntV(5)>>
    /\ fld0.incorrect_answers = <<IntV(-1)>>
    /\ BodyEntries(out.text) = <<"=5", "-1">>
    /\ stable

\* the number of places of seq that hold e
CountIn(seq, e) == Cardinality({n \in 1..Len(seq) : seq[n] = e})

\* a Multichoice with shuffle=true that renders
ShuffledMultichoice ==
    /\ fld.kind = "Multichoice"
    /\ fld.shuffle
    /\ Len(fld.incorrect_answers) > 0

\* source in the order perm
Permuted(source, perm) == [n \in 1..Len(source) |-> source[perm[n]]]

\* C21: every render of a valid Multichoice with shuffle=true gives the entries
\* of the un-shuffled list (the correct answer, then the incorrect answers) in
\* some order, none lost, duplicated or altered; and every order, hence every
\* place of the correct entry, is an output that the random source can make the
\* render of the instance give.
C21_ShuffleIsAnyPermutation ==
    LET source == SourceOrder(<<fld0.correct_answer>>, fld0.incorrect_answers)
        orders == Permutations(1..Len(source))
    IN /\ (ShuffledMultichoice /\ renders > 0 /\ out.status = "ok") =>
             LET entries == BodyEntries(out.text)
             IN /\ Len(entries) = Len(source)
                /\ \A n \in 1..Len(source) :
                      CountIn(entries, source[n]) = CountIn(source, source[n])
                /\ \E perm \in orders : entries = Permuted(source, perm)
       /\ ShuffledMultichoice =>
             \A perm \in orders :
                \E shuffle \in Shuffles(1 + Len(fld.incorrect_answers)) :
                   /\ Multichoice_str(fld, shuffle).status = "ok"
                   /\ BodyEntries(Multichoice_str(fld, shuffle).text)
                         = Permuted(source, perm)

\* two renders of one shuffled Multichoice gave two different orders
C21_Witness ==
    /\ ShuffledMultichoice
    /\ renders = 2
    /\ out.status = "ok"
    /\ ~stable
    /\ fld0.correct_answer = IntV(5)
    /\ fld0.incorrect_answers = <<IntV(10)>>
    /\ BodyEntries(out.text) = <<"10", "=5">>

\* a Multiresponse with correct answers and no incorrect answer has been rendered
OnlyCorrectRendered ==
    /\ fld.kind = "Multiresponse"
    /\ renders > 0
    /\ Len(fld0.correct_answers) > 0
    /\ Len(fld0.incorrect_answers) = 0

\* C22: a Multiresponse with at least one correct answer and an empty
\* incorrect_answers is valid: the render succeeds with no error and every entry
\* of the body is "="-prefixed.
C22_MultiresponseWithoutIncorrect ==
    OnlyCorrectRendered =>
        /\ out.status = "ok"
        /\ LET entries == BodyEntries(out.text)
           IN /\ Len(entries) = Len(fld0.correct_answers)
              /\ MarkedEntries(entries) = 1..Len(entries)

\* two correct answers and no incorrect one were rendered, both marked
C22_Witness ==
    /\ OnlyCorrectRendered
    /\ out.status = "ok"
    /\ fld0.correct_answers = <<IntV(5), StrV("5")>>
    /\ BodyEntries(out.text) = <<"=5", "=5">>

\* the place of the first occurrence of p in t, 0 when there is none
FirstAt(t, p) ==
    IF Occurrences(t, p) = {} THEN 0
    ELSE CHOOSE n \in Occurrences(t, p) : \A m \in Occurrences(t, p) : n <= m

\* the parts come in t in this order, one after the end of the other
RECURSIVE InOrderFrom(_, _, _)
InOrderFrom(t, parts, from) ==
    IF Len(parts) = 0 THEN TRUE
    ELSE LET at == {n \in Occurrences(t, Head(parts)) : n >= from}
         IN /\ at # {}
            /\ InOrderFrom(t, Tail(parts),
                           (CHOOSE n \in at : \A m \in at : n <= m) + Len(Head(parts)))

\* the elements of the fragment of a question, with what they hold
QuestionParts(q) ==
    << "<name><text>" \o q.name \o "</text></name>",
       "<questiontext>", "<text><![CDATA[" \o q.contents \o "]]></text>", "</questiontext>",
       "<generalfeedback>", "<text></text>", "</generalfeedback>",
       "<shuffleanswers>1</shuffleanswers>" >>

\* the fragment is the question element with its four children, once each
QuestionShape(fragment, q) ==
    /\ StartsWithAt(fragment, QuestionMarker, 1)
    /\ StartsWithAt(fragment, "</question>", Len(fragment) - Len("</question>") + 1)
    /\ ~IsSpace(Char(fragment, 1)) /\ ~IsSpace(Char(fragment, Len(fragment)))
    /\ InOrderFrom(fragment, QuestionParts(q), Len(QuestionMarker) + 1)
    /\ \A tag \in {"<name>", "<questiontext>", "<generalfeedback>", "<shuffleanswers>"} :
          Count(fragment, tag) = 1

\* C23: for every name and contents, str(Question) starts with
\* <question type="cloze"> and ends with </question>, with no white space before
\* or after, and holds in this order and once each the name element with the
\* name, the questiontext element with the contents in a CDATA block, a
\* generalfeedback element with an empty text, and <shuffleanswers>1</shuffleanswers>.
C23_QuestionFragmentShape ==
    quizText.status = "ok" =>
        \A n \in 1..Len(questions) :
            QuestionShape(FragmentOf(quizText.text, questions, n), questions[n])

\* a render of the field instance, and a serialization of the quiz
FieldRender == StrNumerical \/ StrShortAnswer \/ StrMultiresponse \/ StrMultichoice
QuizSerialization == StrQuiz \/ QuizToXmlFile

\* after is the instance before with its answers replaced by their string
\* forms, same length and order, and nothing else changed (a Multichoice that
\* raised for its empty incorrect_answers keeps its correct_answer as it was)
OnlyCoerced(before, after) ==
    IF before.kind = "Multiresponse"
    THEN after = [before EXCEPT !.correct_answers = StrList(before.correct_answers),
                                !.incorrect_answers = StrList(before.incorrect_answers)]
    ELSE IF before.kind = "Multichoice"
    THEN \/ after = [before EXCEPT !.correct_answer = StrV(PyStr(before.correct_answer)),
                                   !.incorrect_answers = StrList(before.incorrect_answers)]
         \/ Len(before.incorrect_answers) = 0 /\ after = before
    ELSE after = before

\* C24: a render changes no attribute of the instance, except that Multiresponse
\* and Multichoice replace their stored answers by their string forms: after any
\* sequence of renders the answers have the length and the order they were built
\* with and are the string forms of the originals, and weight, flags and
\* display_mode are as built; Numerical and ShortAnswer are not modified, and
\* serializing a quiz modifies neither the quiz nor its questions.
C24_RenderOnlyCoercesAnswers ==
    [][/\ FieldRender => (OnlyCoerced(fld, fld') /\ OnlyCoerced(fld0, fld'))
       /\ QuizSerialization => (questions' = questions /\ fld' = fld)]_vars

\* a sorted Multiresponse of 10 and -1 was rendered twice and holds '10' and '-1'
C24_Witness ==
    /\ fld.kind = "Multiresponse"
    /\ renders = 2
    /\ out.status = "ok"
    /\ fld0.correct_answers = <<IntV(10), IntV(-1)>>
    /\ fld.correct_answers = <<StrV("10"), StrV("-1")>>
    /\ ~fld.shuffle
    /\ fld.weight = fld0.weight /\ fld.horizontal = fld0.horizontal

\* what each variant asks of its other attributes to render
OtherPreconditions ==
    IF fld.kind = "Multiresponse" THEN Len(fld.correct_answers) > 0
    ELSE IF fld.kind = "Multichoice" THEN Len(fld.incorrect_answers) > 0
    ELSE TRUE

\* C25: no renderer validates the weight: for every weight, 0 and negative
\* integers too, the render succeeds when the other preconditions of the variant
\* hold, and the weight is written unchanged as the first component of the
\* token; the default weight, 1, gives a token that begins with {1:.
C25_WeightNotValidated ==
    renders > 0 =>
        /\ (out.status = "ok") = OtherPreconditions
        /\ (out.status = "ok" =>
              /\ WeightPart(out.text) = IntToStr(fld.weight)
              /\ StartsWithAt(out.text, "{" \o IntToStr(fld0.weight) \o ":", 1)
              /\ (fld.weight = DefaultWeight => StartsWithAt(out.text, "{1:", 1)))

\* a Numerical of weight -10 was rendered
C25_Witness ==
    /\ fld.kind = "Numerical"
    /\ renders > 0
    /\ fld.weight = -10
    /\ out.status = "ok"
    /\ WeightPart(out.text) = "-10"

\* the file at output_path holds a quiz that an earlier call has written
HoldsWrittenQuiz == fs.exists /\ fs.data # ""

C27_SortKeepsMultiset ==
    (SortedRender /\ fld.kind = "Multiresponse") =>
        LET entries == BodyEntries(out.text)
            source == SourceOrder(fld0.correct_answers, fld0.incorrect_answers)
        IN /\ Len(entries) = Len(fld0.correct_answers) + Len(fld0.incorrect_answers)
           /\ Cardinality(MarkedEntries(entries)) = Len(fld0.correct_answers)
           /\ \A n \in MarkedEntries(entries) :
                 \E k \in 1..Len(fld0.correct_answers) :
                    EntryText(entries[n]) = PyStr(fld0.correct_answers[k])
           /\ \A n \in 1..Len(source) :
                 CountIn(entries, source[n]) = CountIn(source, source[n])

\* the correct answer 5 was given twice and is rendered twice
C27_Witness ==
    /\ SortedRender
    /\ fld.kind = "Multiresponse"
    /\ fld0.correct_answers = <<IntV(5), IntV(5)>>
    /\ BodyEntries(out.text) = <<"=5", "=5">>

\* C28: only the file sink enforces the non-empty precondition: str(Quiz) of an
\* empty list of questions does not raise and returns the envelope, the header
\* and </quiz>, with no question element, while to_xml_file of the same quiz
\* raises ValueError.
C28_OnlyFileSinkValidates ==
    Len(questions) = 0 =>
        /\ (quizText.status # "none" =>
              /\ quizText.status = "ok"
              /\ StartsWithAt(quizText.text, QuizHeader, 1)
              /\ quizText.text = XmlHeader \o "\n\n\n" \o ClosingTag
              /\ Count(quizText.text, "<question") = 0)
        /\ (ret # "none" => ret = "ValueError")

\* the empty quiz was serialized with str and then refused by to_xml_file
C28_Witness ==
    /\ Len(questions) = 0
    /\ quizText.status = "ok"
    /\ Count(quizText.text, ClosingTag) = 1
    /\ ret = "ValueError"

\* a TCPMessage whose to_table_row has been called
RowRendered == fld.kind = "TCPMessage" /\ renders > 0

\* the names in the hidden_fields of the message
Hidden == {fld.hidden_fields[n] : n \in 1..Len(fld.hidden_fields)}

\* the cells of a row, in the order of the fields: the text of each line
\* between <td> and </td>
RowCells(row) ==
    LET lines == Split(row, "\n")
    IN [n \in 1..(Len(lines) - 3) |->
           SubSeq(lines[n + 1], Len("\t<td>") + 1, Len(lines[n + 1]) - Len("</td>"))]

\* the row has a cell for each field but hidden_fields: the token of its
\* declared type for a hidden field, its value for the others
RowOfTokens ==
    LET cells == RowCells(out.text)
    IN /\ out.status = "ok"
       /\ StartsWithAt(out.text, "<tr>\n", 1)
       /\ Len(cells) = Len(TCPMessageFields) - 1
       /\ \A n \in 1..Len(cells) :
             LET field == TCPMessageFields[n]
             IN IF field.name \in Hidden
                THEN /\ field.type \in {"int", "str"}
                     /\ (field.type = "int" =>
                           cells[n] = "{1:NUMERICAL:=" \o PyStr(fld[field.name]) \o ":0}")
                     /\ (field.type = "str" =>
                           cells[n] = "{1:SHORTANSWER:=" \o fld[field.name].s \o "}")
                ELSE cells[n] = IF field.name = "ack_number" /\ fld.ACK = IntV(0)
                                THEN "-" ELSE PyStr(fld[field.name])

\* the declared type of the field called name is neither int nor str
OtherType(name) ==
    \E n \in 1..Len(TCPMessageFields) :
        TCPMessageFields[n].name = name /\ TCPMessageFields[n].type \notin {"int", "str"}

\* C29 as stated: to_table_row renders a hidden field as a Numerical token when
\* its declared type is int and as a ShortAnswer token when it is str; a hidden
\* name that is no field of the message, or a hidden field of another declared
\* type, aborts the call with ValueError and no row is returned.
C29_HiddenOtherTypeAborts ==
    RowRendered =>
        IF \E name \in Hidden : name \notin field_names \/ OtherType(name)
        THEN out.status = "ValueError" /\ out.text = ""
        ELSE RowOfTokens

====
